---- MODULE Spec2Model ----
(***************************************************************************)
(* A model of bin/radmonAgent.py: the agent that polls a radiation monitor *)
(* over HTTP, parses and converts the reply, writes the JSON output file,  *)
(* updates the rrdtool database and tracks the monitor's online/offline    *)
(* status.                                                                 *)
(*                                                                         *)
(* Strings the device can send are modelled as token sequences: the text   *)
(*   "$,UTC=17:09:33 6/22/2021,CPS=0,CPM=26,uSv/hr=0.14,Mode=SLOW,#"       *)
(* is the body << <<"UTC","17:09:33 6/22/2021">>, <<"CPS","0">>, ... >>,   *)
(* one entry per comma-separated token, each token being the sequence of   *)
(* its '='-separated parts (a token without '=' has one part).             *)
(***************************************************************************)
EXTENDS Integers, Sequences, FiniteSets, TLC

\* ------------------------------------------------------------ constants

\* _MAX_FAILED_DATA_REQUESTS
MAX_FAILED_DATA_REQUESTS == 3
\* _DEFAULT_DATA_REQUEST_INTERVAL (dataRequestInterval)
dataRequestInterval == 2
\* _DATABASE_UPDATE_INTERVAL
DATABASE_UPDATE_INTERVAL == 30
\* _CHART_UPDATE_INTERVAL
CHART_UPDATE_INTERVAL == 300
\* _HTTP_REQUEST_TIMEOUT
HTTP_REQUEST_TIMEOUT == 3
\* the number of fields parseDataString expects
EXPECTED_ITEMS == 5
\* _SERVER_MODE
SERVER_MODE == "primary"

\* time.time() at the first pass of the main loop (epoch seconds)
StartTime == 1624381800

\* ------------------------------------------------------------ bounds

\* the loop is followed for this many seconds after StartTime
MaxTime == 16
\* time.sleep returns at most this many seconds late
MaxJitter == 1
\* the number of requests for which the device's answers are drawn at one
\* fetch (the first is the one the agent sends)
MaxAttempts == 2

\* ------------------------------------------------------------ dictionaries

EmptyDict == [k \in {} |-> ""]

Put(d, k, v) == [x \in (DOMAIN d) \cup {k} |-> IF x = k THEN v ELSE d[x]]

Pop(d, k) == [x \in (DOMAIN d) \ {k} |-> d[x]]

\* ------------------------------------------------------------ conversions

\* time.strptime(s, "%H:%M:%S %m/%d/%Y") followed by calendar.timegm;
\* -1 stands for the ValueError strptime raises on any other string
EpochOfUtc(s) ==
    CASE s = "17:09:33 6/22/2021" -> 1624381773
      [] s = "17:10:05 6/22/2021" -> 1624381805
      [] OTHER -> -1

\* time.strftime("%m/%d/%Y %T", time.localtime(elt)), host time zone UTC
DateOfEpoch(elt) ==
    CASE elt = 1624381773 -> "06/22/2021 17:09:33"
      [] elt = 1624381805 -> "06/22/2021 17:10:05"
      [] OTHER -> "??/??/???? ??:??:??"

\* str.lower()
Lower(s) ==
    CASE s = "SLOW" -> "slow"
      [] s = "FAST" -> "fast"
      [] OTHER -> s

\* float(s), in thousandths; -1 stands for the ValueError on a string that
\* is no number
FloatOf(s) ==
    CASE s = "0.14"  -> 140
      [] s = "0.146" -> 146
      [] s = "0.15"  -> 150
      [] s = "26"    -> 26000
      [] OTHER -> -1

\* '%.2f' % x for x in thousandths: round to hundredths, print two decimals
Format2(x) ==
    LET h == (x + 5) \div 10
    IN  CASE h = 14 -> "0.14"
          [] h = 15 -> "0.15"
          [] h = 2600 -> "26.00"
          [] OTHER -> "?.??"

\* ------------------------------------------------------------ parseDataString

\* sData[2:-2].split(','): the framing "$," and ",#" is cut off and the rest
\* is split at the commas; the empty string splits into one empty token
SplitContent(body) == IF body = <<>> THEN << <<"">> >> ELSE body

\* the loop "for item in lData": an item with '=' stores its second part
\* under its first part, a later item overwriting an earlier one
RECURSIVE LoadItems(_, _, _)
LoadItems(lData, i, d) ==
    IF i > Len(lData) THEN d
    ELSE LoadItems(lData, i + 1,
                   IF Len(lData[i]) >= 2
                   THEN Put(d, lData[i][1], lData[i][2])
                   ELSE d)

\* a parseDataString whose loop leaves out the first item
parseDataString_SkipFirst(d) ==
    IF "content" \notin DOMAIN d
    THEN [ok |-> FALSE, dData |-> d]
    ELSE LET lData == SplitContent(d["content"])
         IN  IF Len(lData) # EXPECTED_ITEMS
             THEN [ok |-> FALSE, dData |-> Pop(d, "content")]
             ELSE [ok |-> TRUE,
                   dData |-> Put(Put(LoadItems(lData, 2, Pop(d, "content")),
                                     "status", "online"),
                                 "serverMode", SERVER_MODE)]

\* a parseDataString that only rejects a string with too few items
parseDataString_AtLeast(d) ==
    IF "content" \notin DOMAIN d
    THEN [ok |-> FALSE, dData |-> d]
    ELSE LET lData == SplitContent(d["content"])
         IN  IF Len(lData) < EXPECTED_ITEMS
             THEN [ok |-> FALSE, dData |-> Pop(d, "content")]
             ELSE [ok |-> TRUE,
                   dData |-> Put(Put(LoadItems(lData, 1, Pop(d, "content")),
                                     "status", "online"),
                                 "serverMode", SERVER_MODE)]

\* parseDataString(dData): [ok, dData]
parseDataString(d) ==
    IF "content" \notin DOMAIN d
    THEN [ok |-> FALSE, dData |-> d]
    ELSE LET sData == d["content"]
             d0    == Pop(d, "content")
             lData == SplitContent(sData)
         IN  IF Len(lData) # EXPECTED_ITEMS
             THEN [ok |-> FALSE, dData |-> d0]
             ELSE [ok |-> TRUE,
                   dData |-> Put(Put(LoadItems(lData, 1, d0),
                                     "status", "online"),
                                 "serverMode", SERVER_MODE)]

\* ------------------------------------------------------------ convertData

\* a convertData that reads the device's time stamp as local time, one hour
\* east of UTC (time.mktime in place of calendar.timegm)
convertData_LocalTime(d) ==
    IF "UTC" \notin DOMAIN d \/ EpochOfUtc(d["UTC"]) = -1
    THEN [ok |-> FALSE, dData |-> d]
    ELSE LET d1 == Put(d, "ELT", EpochOfUtc(d["UTC"]) - 3600)
             d2 == Put(d1, "date", DateOfEpoch(d1["ELT"]))
         IN  IF "Mode" \notin DOMAIN d2
             THEN [ok |-> FALSE, dData |-> d2]
             ELSE LET d3 == Put(Pop(d2, "Mode"), "mode", Lower(d2["Mode"]))
                  IN  IF "uSv/hr" \notin DOMAIN d3
                      THEN [ok |-> FALSE, dData |-> d3]
                      ELSE IF FloatOf(d3["uSv/hr"]) = -1
                      THEN [ok |-> FALSE, dData |-> Pop(d3, "uSv/hr")]
                      ELSE [ok |-> TRUE,
                            dData |-> Put(Pop(d3, "uSv/hr"), "uSvPerHr",
                                          Format2(FloatOf(d3["uSv/hr"])))]

\* a convertData that keeps the dose rate as the device sent it, without
\* rounding it to two decimals
convertData_Unrounded(d) ==
    IF "UTC" \notin DOMAIN d \/ EpochOfUtc(d["UTC"]) = -1
    THEN [ok |-> FALSE, dData |-> d]
    ELSE LET d1 == Put(d, "ELT", EpochOfUtc(d["UTC"]))
             d2 == Put(d1, "date", DateOfEpoch(d1["ELT"]))
         IN  IF "Mode" \notin DOMAIN d2
             THEN [ok |-> FALSE, dData |-> d2]
             ELSE LET d3 == Put(Pop(d2, "Mode"), "mode", Lower(d2["Mode"]))
                  IN  IF "uSv/hr" \notin DOMAIN d3
                      THEN [ok |-> FALSE, dData |-> d3]
                      ELSE IF FloatOf(d3["uSv/hr"]) = -1
                      THEN [ok |-> FALSE, dData |-> Pop(d3, "uSv/hr")]
                      ELSE [ok |-> TRUE,
                            dData |-> Put(Pop(d3, "uSv/hr"), "uSvPerHr",
                                          d3["uSv/hr"])]

\* convertData(dData): [ok, dData]; a KeyError or ValueError anywhere in the
\* try block ends it with the dictionary as changed so far
convertData(d) ==
    IF "UTC" \notin DOMAIN d \/ EpochOfUtc(d["UTC"]) = -1
    THEN [ok |-> FALSE, dData |-> d]
    ELSE LET d1 == Put(d, "ELT", EpochOfUtc(d["UTC"]))
             d2 == Put(d1, "date", DateOfEpoch(d1["ELT"]))
         IN  IF "Mode" \notin DOMAIN d2
             THEN [ok |-> FALSE, dData |-> d2]
             ELSE LET d3 == Put(Pop(d2, "Mode"), "mode", Lower(d2["Mode"]))
                  IN  IF "uSv/hr" \notin DOMAIN d3
                      THEN [ok |-> FALSE, dData |-> d3]
                      ELSE IF FloatOf(d3["uSv/hr"]) = -1
                      THEN [ok |-> FALSE, dData |-> Pop(d3, "uSv/hr")]
                      ELSE [ok |-> TRUE,
                            dData |-> Put(Pop(d3, "uSv/hr"), "uSvPerHr",
                                          Format2(FloatOf(d3["uSv/hr"])))]

\* ------------------------------------------------------------ output file

\* the output data file: absent, or present with the JSON array written last
\* (an empty array stands for a file opened for writing and left empty)
Absent == [exists |-> FALSE, content |-> <<>>]

\* a writeOutputFile that opens the file for appending ("a" in place of "w")
writeOutputFile_Append(d, file, outcome) ==
    CASE outcome = "ok" ->
           [ok |-> TRUE,
            outputFile |-> [exists |-> TRUE,
                            content |-> Append(file.content, d)]]
      [] outcome = "writefail" ->
           [ok |-> FALSE,
            outputFile |-> [exists |-> TRUE, content |-> file.content]]
      [] OTHER ->
           [ok |-> FALSE, outputFile |-> file]

\* writeOutputFile(dData): [ok, outputFile]. outcome is what the file system
\* does: "ok", "openfail" (open raises, the file is left as it was) or
\* "writefail" (open truncated the file, write raised)
writeOutputFile(d, file, outcome) ==
    CASE outcome = "ok" ->
           [ok |-> TRUE, outputFile |-> [exists |-> TRUE, content |-> <<d>>]]
      [] outcome = "writefail" ->
           [ok |-> FALSE, outputFile |-> [exists |-> TRUE, content |-> <<>>]]
      [] OTHER ->
           [ok |-> FALSE, outputFile |-> file]

\* the status the output file shows to its readers ("none" when it shows none)
FileStatus(file) ==
    IF file.exists /\ Len(file.content) = 1
       /\ "status" \in DOMAIN file.content[1]
    THEN file.content[1]["status"]
    ELSE "none"

\* ------------------------------------------------------------ status

\* a setStatusToOffline that leaves the output file in place
setStatusToOffline_KeepFile(st) ==
    [st EXCEPT !.statusLog = IF st.radmonOnline THEN "offline" ELSE @,
               !.radmonOnline = FALSE]

\* a setStatusToOffline that removes the output file only when the monitor
\* was online
setStatusToOffline_RemoveIfOnline(st) ==
    [st EXCEPT !.outputFile = IF st.radmonOnline THEN Absent ELSE @,
               !.statusLog = IF st.radmonOnline THEN "offline" ELSE @,
               !.radmonOnline = FALSE]

\* setStatusToOffline() on st = [outputFile, radmonOnline, statusLog,
\* failedUpdateCount]: the output file is removed, "radiation monitor
\* offline" is logged if the monitor was online, the flag is cleared
setStatusToOffline(st) ==
    [st EXCEPT !.outputFile = Absent,
               !.statusLog = IF st.radmonOnline THEN "offline" ELSE @,
               !.radmonOnline = FALSE]

\* a setRadmonStatus that goes offline one failure late
setRadmonStatus_OneLate(updateSuccess, st) ==
    IF updateSuccess
    THEN [st EXCEPT !.failedUpdateCount = 0,
                    !.statusLog = IF ~st.radmonOnline THEN "online" ELSE @,
                    !.radmonOnline = TRUE]
    ELSE LET st1 == IF st.failedUpdateCount = MAX_FAILED_DATA_REQUESTS
                    THEN setStatusToOffline(st)
                    ELSE st
         IN  [st1 EXCEPT !.failedUpdateCount = @ + 1]

\* a setRadmonStatus that returns after setStatusToOffline without counting
setRadmonStatus_NoCount(updateSuccess, st) ==
    IF updateSuccess
    THEN [st EXCEPT !.failedUpdateCount = 0,
                    !.statusLog = IF ~st.radmonOnline THEN "online" ELSE @,
                    !.radmonOnline = TRUE]
    ELSE IF st.failedUpdateCount = MAX_FAILED_DATA_REQUESTS - 1
    THEN setStatusToOffline(st)
    ELSE [st EXCEPT !.failedUpdateCount = @ + 1]

\* a setRadmonStatus that logs "radiation monitor online" at every good pass
setRadmonStatus_LogEach(updateSuccess, st) ==
    IF updateSuccess
    THEN [st EXCEPT !.failedUpdateCount = 0,
                    !.statusLog = "online",
                    !.radmonOnline = TRUE]
    ELSE LET st1 == IF st.failedUpdateCount = MAX_FAILED_DATA_REQUESTS - 1
                    THEN setStatusToOffline(st)
                    ELSE st
         IN  [st1 EXCEPT !.failedUpdateCount = @ + 1]

\* setRadmonStatus(updateSuccess) on the same record
setRadmonStatus(updateSuccess, st) ==
    IF updateSuccess
    THEN [st EXCEPT !.failedUpdateCount = 0,
                    !.statusLog = IF ~st.radmonOnline THEN "online" ELSE @,
                    !.radmonOnline = TRUE]
    ELSE LET st1 == IF st.failedUpdateCount = MAX_FAILED_DATA_REQUESTS - 1
                    THEN setStatusToOffline(st)
                    ELSE st
         IN  [st1 EXCEPT !.failedUpdateCount = @ + 1]

\* ------------------------------------------------------------ updateDatabase

\* updateDatabase: SvPerHr = float(dData['uSvPerHr']) * 1.0E-06, in units of
\* 1.0E-09 Sv/h: the thousandths of a uSv/h that FloatOf counts
SvPerHr(d) == FloatOf(d["uSvPerHr"])

\* what "rrdtool update file ELT:CPM:SvPerHr" answers: the store rejects a
\* time stamp that is not later than its last one and a value that is no
\* number; storeFails stands for any other failure of the command
RrdToolUpdate(elt, cpm, last, storeFails) ==
    IF elt <= last THEN "order"
    ELSE IF FloatOf(cpm) = -1 \/ storeFails THEN "error"
    ELSE "ok"

\* updateDatabase(dData) given the command's answer: [raised, ok,
\* remoteDeviceReset]. dData['CPM'] raises KeyError outside any try block.
\* In the except block exError.output is a bytes object (check_output runs
\* without text mode), so exError.output.find("illegal attempt ...") raises
\* TypeError before the reset flag is set and before "return False".
updateDatabase(d, reset, answer) ==
    IF "CPM" \notin DOMAIN d
    THEN [raised |-> TRUE, ok |-> FALSE, remoteDeviceReset |-> reset]
    ELSE IF answer = "ok"
    THEN [raised |-> FALSE, ok |-> TRUE, remoteDeviceReset |-> reset]
    ELSE [raised |-> TRUE, ok |-> FALSE, remoteDeviceReset |-> reset]

\* ------------------------------------------------------------ inputs

\* what the device can answer to one request: a connection error, a timeout
\* (after _HTTP_REQUEST_TIMEOUT seconds), an empty body, or a data string
RespKinds == {"error", "timeout", "empty", "data"}

Item(k, v) == <<k, v>>

DataString(utc, cpm, usv, mode) ==
    << Item("UTC", utc), Item("CPS", "0"), Item("CPM", cpm),
       Item("uSv/hr", usv), Item("Mode", mode) >>

\* the data strings the device sends in the runs of the main loop
DeviceContents ==
    { DataString("17:09:33 6/22/2021", "26", "0.14", "SLOW"),
      DataString("17:10:05 6/22/2021", "26", "0.146", "FAST"),
      DataString("17:10:05 6/22/2021", "n/a", "0.14", "SLOW"),
      DataString("25:61:61 6/22/2021", "26", "0.14", "SLOW"),
      DataString("17:09:33 6/22/2021", "26", "n/a", "SLOW"),
      << Item("UTC", "17:10:05 6/22/2021"), Item("CPS", "0"), <<"CPM">>,
         Item("uSv/hr", "0.14"), Item("Mode", "SLOW") >>,
      << Item("UTC", "17:10:05 6/22/2021"), Item("CPS", "0"),
         Item("uSv/hr", "0.14"), Item("Mode", "SLOW") >>,
      << Item("UTC", "17:10:05 6/22/2021"), Item("CPS", "0"),
         Item("CPM", "26"), Item("uSv/hr", "0.14"), Item("Mode", "SLOW"),
         Item("CPH", "1560") >>,
      << Item("UTC", "17:10:05 6/22/2021"), Item("CPS", "0"),
         Item("CPM", "26"), Item("uSv/hr", "0.14"), Item("Mode", "SLOW"),
         Item("CPH", "1560"), Item("Vcc", "4.9") >>,
      <<>> }

\* ------------------------------------------------------------ state

VARIABLES
    pc,                      \* where the agent process is in main()
    now,                     \* the wall clock, time.time()
    currentTime,             \* main: currentTime
    lastDataRequestTime,     \* main: lastDataRequestTime
    lastDatabaseUpdateTime,  \* main: lastDatabaseUpdateTime
    lastChartUpdateTime,     \* main: lastChartUpdateTime
    result,                  \* main: result
    dData,                   \* main: dData
    failedUpdateCount,       \* global failedUpdateCount
    radmonOnline,            \* global radmonOnline
    remoteDeviceReset,       \* global remoteDeviceReset
    outputFile,              \* the file _OUTPUT_DATA_FILE
    rrdLastUpdate,           \* the last time stamp the rrd store accepted
    graphProcs,              \* running generateGraphs processes
    statusLog,               \* the last online/offline message logged
    statusEvents,            \* history: the online/offline messages logged
    cycle,                   \* history: what the current pass has done
    fetchLog,                \* history: the fetch of this pass
    dbAnswer,                \* history: the last answer of rrdtool update
    dbCalls,                 \* history: the rrdtool update commands run
    exitedAt,                \* history: where main was when the signal came
    consecFails,             \* history: failed cycles since the last success
    everSucceeded            \* history: some cycle has been reported good

vars == << pc, now, currentTime, lastDataRequestTime, lastDatabaseUpdateTime,
           lastChartUpdateTime, result, dData, failedUpdateCount,
           radmonOnline, remoteDeviceReset, outputFile, rrdLastUpdate,
           graphProcs, statusLog, statusEvents, cycle, fetchLog, dbAnswer,
           dbCalls, exitedAt, consecFails, everSucceeded >>

timers == << currentTime, lastDataRequestTime, lastDatabaseUpdateTime,
             lastChartUpdateTime >>

tracker == << failedUpdateCount, radmonOnline, statusLog, statusEvents,
              consecFails, everSucceeded >>

\* the last time stamp in the rrd file when the agent starts: that of its
\* creation, or one stored by an earlier run of the agent
RrdStartTimes == {1624380000, 1624381773}

NoCycle == [due |-> FALSE, fetchOk |-> FALSE, parseOk |-> FALSE,
            convertOk |-> FALSE, wrote |-> FALSE, rewrite |-> FALSE,
            dbUpdate |-> FALSE, reported |-> FALSE]

NoFetch == [answers |-> <<>>, requests |-> 0, path |-> "none",
            got |-> FALSE, content |-> <<>>]

Init ==
    /\ pc = "top"
    /\ now = StartTime
    /\ currentTime = StartTime
    /\ lastDataRequestTime = -1
    /\ lastDatabaseUpdateTime = -1
    /\ lastChartUpdateTime = -1
    /\ result = FALSE
    /\ dData = EmptyDict
    /\ failedUpdateCount = 0
    /\ radmonOnline = FALSE
    /\ remoteDeviceReset = FALSE
    /\ outputFile = Absent
    /\ rrdLastUpdate \in RrdStartTimes
    /\ graphProcs = 0
    /\ statusLog = "none" /\ statusEvents = <<>>
    /\ cycle = NoCycle
    /\ fetchLog = NoFetch
    /\ dbAnswer = "none" /\ dbCalls = <<>> /\ exitedAt = "none"
    /\ consecFails = 0
    /\ everSucceeded = FALSE

\* ------------------------------------------------------------ main loop

\* a main that starts the data request as soon as the interval has passed
DataRequestDue_AtLeast(cur, last) == cur - last >= dataRequestInterval

\* main: currentTime - lastDataRequestTime > dataRequestInterval
DataRequestDue(cur, last) == cur - last > dataRequestInterval

\* a main that updates the database as soon as the interval has passed
DatabaseUpdateDue_AtLeast(cur, last) == cur - last >= DATABASE_UPDATE_INTERVAL

\* main: currentTime - lastDatabaseUpdateTime > _DATABASE_UPDATE_INTERVAL
DatabaseUpdateDue(cur, last) == cur - last > DATABASE_UPDATE_INTERVAL

\* main: currentTime - lastChartUpdateTime > _CHART_UPDATE_INTERVAL
ChartUpdateDue(cur, last) == cur - last > CHART_UPDATE_INTERVAL

\* a main that writes whatever convertData returned
MayWrite_Always(res) == TRUE

\* main: "if result:" before writeOutputFile and before updateDatabase
MayWrite(res) == res

\* the top of "while True": the time is read and the data request is
\* started if it is due; the runs are followed for horizon seconds
LoopTopWithin(horizon) ==
    /\ pc = "top"
    /\ now <= StartTime + horizon
    /\ currentTime' = now
    /\ IF DataRequestDue(now, lastDataRequestTime)
       THEN /\ lastDataRequestTime' = now
            /\ dData' = EmptyDict
            /\ cycle' = [NoCycle EXCEPT !.due = TRUE]
            /\ pc' = "fetch"
       ELSE /\ cycle' = NoCycle
            /\ pc' = "chart"
            /\ UNCHANGED << lastDataRequestTime, dData >>
    /\ fetchLog' = NoFetch
    /\ UNCHANGED << now, lastDatabaseUpdateTime, lastChartUpdateTime, result,
                    remoteDeviceReset, outputFile, rrdLastUpdate, graphProcs,
                    dbAnswer, dbCalls, exitedAt >>
    /\ UNCHANGED tracker

LoopTop == LoopTopWithin(MaxTime)

\* a getRadiationData that asks again until the device answers with data
getRadiationData_Retry(d, reset, answers, content) ==
    LET good == {i \in DOMAIN answers : answers[i] = "data"}
        ok   == good # {}
        n    == IF ok THEN CHOOSE i \in good : \A j \in good : i <= j
                ELSE Len(answers)
    IN  [ok       |-> ok,
         dData    |-> IF ok THEN Put(d, "content", content) ELSE d,
         requests |-> n,
         path     |-> IF reset THEN "/reset" ELSE "/rdata",
         took     |-> 0]

\* getRadiationData(dData): one urlopen of /reset or /rdata; answers[i] is
\* what the device answers to the i-th request made now, content the data
\* string it sends when it answers with data
getRadiationData(d, reset, answers, content) ==
    LET ok == answers[1] = "data"
    IN  [ok       |-> ok,
         dData    |-> IF ok THEN Put(d, "content", content) ELSE d,
         requests |-> 1,
         path     |-> IF reset THEN "/reset" ELSE "/rdata",
         took     |-> IF answers[1] = "timeout" THEN HTTP_REQUEST_TIMEOUT
                      ELSE 0]

\* the data request of a pass, the device answering with one of answerSeqs
\* and, when it sends data, with one of contents
GetRadiationDataFrom(answerSeqs, contents) ==
    /\ pc = "fetch"
    /\ \E answers \in answerSeqs, content \in contents :
         LET r == getRadiationData(dData, remoteDeviceReset, answers, content)
         IN  /\ result' = r.ok
             /\ dData' = r.dData
             /\ now' = now + r.took
             /\ fetchLog' = [answers |-> answers, requests |-> r.requests,
                             path |-> r.path, got |-> r.ok,
                             content |-> IF r.ok THEN content ELSE <<>>]
             /\ cycle' = [cycle EXCEPT !.fetchOk = r.ok]
             /\ pc' = IF r.ok THEN "parse" ELSE "status"
    /\ UNCHANGED << remoteDeviceReset, outputFile, rrdLastUpdate, graphProcs,
                    dbAnswer, dbCalls, exitedAt >>
    /\ UNCHANGED timers
    /\ UNCHANGED tracker

GetRadiationData ==
    GetRadiationDataFrom([1..MaxAttempts -> RespKinds], DeviceContents)

ParseDataString ==
    /\ pc = "parse"
    /\ LET r == parseDataString(dData)
       IN  /\ result' = r.ok
           /\ dData' = r.dData
           /\ cycle' = [cycle EXCEPT !.parseOk = r.ok]
           /\ pc' = IF r.ok THEN "convert" ELSE "status"
    /\ UNCHANGED << now, remoteDeviceReset, outputFile, rrdLastUpdate,
                    graphProcs, dbAnswer, dbCalls, exitedAt, fetchLog >>
    /\ UNCHANGED timers
    /\ UNCHANGED tracker

ConvertData ==
    /\ pc = "convert"
    /\ LET r == convertData(dData)
       IN  /\ result' = r.ok
           /\ dData' = r.dData
           /\ cycle' = [cycle EXCEPT !.convertOk = r.ok]
           /\ pc' = IF MayWrite(r.ok) THEN "write" ELSE "status"
           /\ fetchLog' = IF r.ok
                          THEN [NoFetch EXCEPT !.content = fetchLog.content]
                          ELSE NoFetch
    /\ UNCHANGED << now, remoteDeviceReset, outputFile, rrdLastUpdate,
                    graphProcs, dbAnswer, dbCalls, exitedAt >>
    /\ UNCHANGED timers
    /\ UNCHANGED tracker

\* main: writeOutputFile(dData), up to open(_OUTPUT_DATA_FILE, "w"): the
\* file is opened, or open raises and writeOutputFile returns False
OpenOutputFile ==
    /\ pc = "write"
    /\ \E opened \in BOOLEAN :
         IF opened
         THEN /\ outputFile'
                   = writeOutputFile(dData, outputFile, "writefail").outputFile
              /\ pc' = "writing"
         ELSE /\ outputFile'
                   = writeOutputFile(dData, outputFile, "openfail").outputFile
              /\ pc' = "db"
    /\ cycle' = [cycle EXCEPT !.wrote = TRUE,
                              !.rewrite = (outputFile.content = <<dData>>)]
    /\ UNCHANGED << now, result, dData, remoteDeviceReset, rrdLastUpdate,
                    graphProcs, dbAnswer, dbCalls, exitedAt, fetchLog >>
    /\ UNCHANGED timers
    /\ UNCHANGED tracker

\* writeOutputFile from fc.write(sData) on; its result is dropped by main
WriteOutputFile ==
    /\ pc = "writing"
    /\ \E outcome \in {"ok", "writefail"} :
         outputFile' = writeOutputFile(dData, outputFile, outcome).outputFile
    /\ pc' = "db"
    /\ UNCHANGED << now, result, dData, remoteDeviceReset, rrdLastUpdate,
                    graphProcs, dbAnswer, dbCalls, exitedAt, cycle, fetchLog >>
    /\ UNCHANGED timers
    /\ UNCHANGED tracker

\* the database update, when it is due; an exception that updateDatabase
\* does not catch ends the process with a traceback
UpdateDatabase ==
    /\ pc = "db"
    /\ MayWrite(result)
    /\ DatabaseUpdateDue(currentTime, lastDatabaseUpdateTime)
    /\ lastDatabaseUpdateTime' = currentTime
    /\ \E storeFails \in BOOLEAN :
         LET answer == IF "CPM" \in DOMAIN dData
                       THEN RrdToolUpdate(dData["ELT"], dData["CPM"],
                                          rrdLastUpdate, storeFails)
                       ELSE "none"
             r == updateDatabase(dData, remoteDeviceReset, answer)
         IN  /\ dbAnswer' = answer
             /\ dbCalls' = IF answer = "none" THEN dbCalls
                           ELSE Append(dbCalls,
                                       [time |-> currentTime,
                                        ts |-> dData["ELT"],
                                        sv |-> SvPerHr(dData),
                                        answer |-> answer])
             /\ rrdLastUpdate' = IF answer = "ok" THEN dData["ELT"]
                                 ELSE rrdLastUpdate
             /\ remoteDeviceReset' = r.remoteDeviceReset
             /\ result' = IF r.raised THEN result ELSE r.ok
             /\ pc' = IF r.raised THEN "crashed" ELSE "status"
    /\ cycle' = [cycle EXCEPT !.dbUpdate = TRUE]
    /\ UNCHANGED << now, currentTime, lastDataRequestTime,
                    lastChartUpdateTime, dData, outputFile, graphProcs,
                    exitedAt, fetchLog >>
    /\ UNCHANGED tracker

\* the database update is not due in this pass
SkipDatabase ==
    /\ pc = "db"
    /\ ~(MayWrite(result)
         /\ DatabaseUpdateDue(currentTime, lastDatabaseUpdateTime))
    /\ pc' = "status"
    /\ UNCHANGED << now, result, dData, remoteDeviceReset, outputFile,
                    rrdLastUpdate, graphProcs, dbAnswer, dbCalls, exitedAt,
                    cycle, fetchLog >>
    /\ UNCHANGED timers
    /\ UNCHANGED tracker

TrackerState ==
    [failedUpdateCount |-> failedUpdateCount, radmonOnline |-> radmonOnline,
     outputFile |-> outputFile, statusLog |-> statusLog]

\* the tracker with no message logged yet: what a call logs shows in the
\* statusLog of its result
Unlogged(st) == [st EXCEPT !.statusLog = "none"]

\* the messages logged so far, after a call that has logged msg or nothing
LogAfter(events, msg) ==
    IF msg = "none" THEN events ELSE Append(events, msg)

\* main: setRadmonStatus(result)
SetRadmonStatus ==
    /\ pc = "status"
    /\ LET st == setRadmonStatus(result, TrackerState)
           msg == setRadmonStatus(result, Unlogged(TrackerState)).statusLog
       IN  /\ failedUpdateCount' = st.failedUpdateCount
           /\ radmonOnline' = st.radmonOnline
           /\ outputFile' = st.outputFile
           /\ statusLog' = st.statusLog
           /\ statusEvents' = LogAfter(statusEvents, msg)
    /\ consecFails' = IF result THEN 0 ELSE consecFails + 1
    /\ everSucceeded' = (everSucceeded \/ result)
    /\ cycle' = [cycle EXCEPT !.reported = TRUE]
    /\ fetchLog' = NoFetch
    /\ dData' = EmptyDict      \* the dictionary is not read again
    /\ pc' = "chart"
    /\ UNCHANGED << now, result, remoteDeviceReset, rrdLastUpdate,
                    graphProcs, dbAnswer, dbCalls, exitedAt >>
    /\ UNCHANGED timers

\* a main that waits for the generateGraphs process (p.join()) before it goes
\* on: the process is over when the loop gets to its sleep
StartGraphs_Join ==
    /\ pc = "chart"
    /\ IF ChartUpdateDue(currentTime, lastChartUpdateTime)
       THEN lastChartUpdateTime' = currentTime
       ELSE UNCHANGED lastChartUpdateTime
    /\ pc' = "sleep"
    /\ UNCHANGED << now, currentTime, lastDataRequestTime,
                    lastDatabaseUpdateTime, result, dData, remoteDeviceReset,
                    outputFile, rrdLastUpdate, graphProcs, dbAnswer, dbCalls,
                    exitedAt, cycle, fetchLog >>
    /\ UNCHANGED tracker

\* the chart generation, started as a process of its own when it is due
StartGraphs ==
    /\ pc = "chart"
    /\ IF ChartUpdateDue(currentTime, lastChartUpdateTime)
       THEN /\ lastChartUpdateTime' = currentTime
            /\ graphProcs' = graphProcs + 1
       ELSE UNCHANGED << lastChartUpdateTime, graphProcs >>
    /\ pc' = "sleep"
    /\ UNCHANGED << now, currentTime, lastDataRequestTime,
                    lastDatabaseUpdateTime, result, dData, remoteDeviceReset,
                    outputFile, rrdLastUpdate, dbAnswer, dbCalls, exitedAt,
                    cycle, fetchLog >>
    /\ UNCHANGED tracker

\* a generateGraphs process comes to its end
GraphsDone ==
    /\ graphProcs > 0
    /\ graphProcs' = graphProcs - 1
    /\ UNCHANGED << pc, now, result, dData, remoteDeviceReset, outputFile,
                    rrdLastUpdate, dbAnswer, dbCalls, exitedAt, cycle,
                    fetchLog >>
    /\ UNCHANGED timers
    /\ UNCHANGED tracker

\* the end of the pass: time.sleep(remainingTime) if any time remains
Sleep ==
    /\ pc = "sleep"
    /\ LET elapsedTime == now - currentTime
           remainingTime == dataRequestInterval - elapsedTime
       IN  IF remainingTime > 0
           THEN \E late \in 0..MaxJitter : now' = now + remainingTime + late
           ELSE now' = now
    /\ pc' = "top"
    /\ UNCHANGED << result, dData, remoteDeviceReset, outputFile,
                    rrdLastUpdate, graphProcs, dbAnswer, dbCalls, exitedAt,
                    cycle, fetchLog >>
    /\ UNCHANGED timers
    /\ UNCHANGED tracker

\* a handler that lets the pass under way report its outcome before it
\* cleans up and exits
TerminateAgentProcess_AfterReport ==
    /\ pc \notin {"exited", "crashed"}
    /\ LET underWay == cycle.due /\ ~cycle.reported
           st0 == IF underWay THEN setRadmonStatus(result, TrackerState)
                  ELSE TrackerState
           st == setStatusToOffline(st0)
           msg0 == IF underWay
                   THEN setRadmonStatus(result,
                                        Unlogged(TrackerState)).statusLog
                   ELSE "none"
           msg == setStatusToOffline(Unlogged(st0)).statusLog
       IN  /\ failedUpdateCount' = st.failedUpdateCount
           /\ radmonOnline' = st.radmonOnline
           /\ outputFile' = st.outputFile
           /\ statusLog' = st.statusLog
           /\ statusEvents' = LogAfter(LogAfter(statusEvents, msg0), msg)
           /\ cycle' = [cycle EXCEPT !.reported = underWay \/ @]
    /\ pc' = "exited"
    /\ exitedAt' = pc
    /\ fetchLog' = NoFetch
    /\ UNCHANGED << now, result, dData, remoteDeviceReset, rrdLastUpdate,
                    graphProcs, dbAnswer, dbCalls, consecFails,
                    everSucceeded >>
    /\ UNCHANGED timers

\* terminateAgentProcess: SIGTERM or SIGINT arrives, wherever main() is
TerminateAgentProcess ==
    /\ pc \notin {"exited", "crashed"}
    /\ LET st == setStatusToOffline(TrackerState)
           msg == setStatusToOffline(Unlogged(TrackerState)).statusLog
       IN  /\ failedUpdateCount' = st.failedUpdateCount
           /\ radmonOnline' = st.radmonOnline
           /\ outputFile' = st.outputFile
           /\ statusLog' = st.statusLog
           /\ statusEvents' = LogAfter(statusEvents, msg)
    /\ pc' = "exited"
    /\ exitedAt' = pc
    /\ fetchLog' = NoFetch
    /\ UNCHANGED << now, result, dData, remoteDeviceReset, rrdLastUpdate,
                    graphProcs, dbAnswer, dbCalls, cycle, consecFails,
                    everSucceeded >>
    /\ UNCHANGED timers

Next ==
    \/ LoopTop
    \/ GetRadiationData
    \/ ParseDataString
    \/ ConvertData
    \/ OpenOutputFile
    \/ WriteOutputFile
    \/ UpdateDatabase
    \/ SkipDatabase
    \/ SetRadmonStatus
    \/ StartGraphs
    \/ GraphsDone
    \/ Sleep
    \/ TerminateAgentProcess

Spec == Init /\ [][Next]_vars

\* ------------------------------------------------------------ long runs

\* runs long enough for a second database update, with a device that is
\* unreachable, or sends a well-formed data string, or one that fails in
\* parseDataString, or one that fails in convertData
MaxLongTime == 32

SteadyAnswers ==
    { [i \in 1..MaxAttempts |-> kind] : kind \in {"error", "data"} }

SteadyContents ==
    { DataString("17:09:33 6/22/2021", "26", "0.14", "SLOW"),
      DataString("17:10:05 6/22/2021", "26", "0.146", "FAST"),
      DataString("25:61:61 6/22/2021", "26", "0.14", "SLOW"),
      <<>> }

NextLong ==
    \/ LoopTopWithin(MaxLongTime)
    \/ GetRadiationDataFrom(SteadyAnswers, SteadyContents)
    \/ ParseDataString
    \/ ConvertData
    \/ OpenOutputFile
    \/ WriteOutputFile
    \/ UpdateDatabase
    \/ SkipDatabase
    \/ SetRadmonStatus
    \/ StartGraphs
    \/ GraphsDone
    \/ Sleep
    \/ TerminateAgentProcess

SpecLong == Init /\ [][NextLong]_vars

\* ------------------------------------------------------------ parser runs

\* the items of the data strings given to parseDataString alone
ParserItems ==
    { Item("UTC", "17:09:33 6/22/2021"), Item("CPS", "0"), Item("CPM", "26"),
      Item("uSv/hr", "0.14"), Item("Mode", "SLOW"), <<"CPM">> }

\* the longest data string given to parseDataString alone, in items
MaxItems == 6

ParserInputs ==
    UNION { [1..n -> ParserItems] : n \in (EXPECTED_ITEMS - 1)..MaxItems }

\* main() has received content from the device and is about to parse it
ParseInit ==
    \E content \in ParserInputs :
        /\ pc = "parse"
        /\ now = StartTime
        /\ currentTime = StartTime
        /\ lastDataRequestTime = StartTime
        /\ lastDatabaseUpdateTime = -1
        /\ lastChartUpdateTime = -1
        /\ result = TRUE
        /\ dData = Put(EmptyDict, "content", content)
        /\ failedUpdateCount = 0
        /\ radmonOnline = FALSE
        /\ remoteDeviceReset = FALSE
        /\ outputFile = Absent
        /\ rrdLastUpdate \in RrdStartTimes
        /\ graphProcs = 0
        /\ statusLog = "none" /\ statusEvents = <<>>
        /\ cycle = [NoCycle EXCEPT !.due = TRUE, !.fetchOk = TRUE]
        /\ fetchLog = [answers |-> [i \in 1..MaxAttempts |-> "data"],
                       requests |-> 1, path |-> "/rdata", got |-> TRUE,
                       content |-> content]
        /\ dbAnswer = "none" /\ dbCalls = <<>> /\ exitedAt = "none"
        /\ consecFails = 0
        /\ everSucceeded = FALSE

SpecParse == ParseInit /\ [][ParseDataString]_vars

\* ------------------------------------------------------------ properties

\* the steps of the current pass up to setRadmonStatus are over
CycleOver == pc \in {"chart", "sleep", "top", "crashed"}

\* fetch, parse and convert have all succeeded in the current pass
PipelineOk == cycle.fetchOk /\ cycle.parseOk /\ cycle.convertOk

\* parseDataString has acted on the content received in this pass
Parsed == fetchLog.got /\ pc \in {"convert", "status"}

\* an item of the form key=value
WellFormedItem(item) == Len(item) = 2

FiveWellFormed(content) ==
    /\ Len(content) = EXPECTED_ITEMS
    /\ \A i \in 1..Len(content) : WellFormedItem(content[i])

KeysOf(content) == { content[i][1] : i \in 1..Len(content) }

\* C1: once a cycle has been reported good, the monitor is online exactly
\* while fewer than _MAX_FAILED_DATA_REQUESTS failed cycles have followed the
\* last good one: it goes offline at the N-th failure of a run and at no
\* earlier one, stays offline for the rest of the run, and is online again
\* with the first good cycle
C1_OfflineAtNthFailure ==
    (pc # "exited" /\ everSucceeded)
        => (radmonOnline <=> consecFails < MAX_FAILED_DATA_REQUESTS)

C1_Witness ==
    /\ pc = "chart"
    /\ everSucceeded
    /\ ~radmonOnline
    /\ consecFails = MAX_FAILED_DATA_REQUESTS + 1

\* C2: failedUpdateCount is the number of failed cycles reported since the
\* last good one (or since startup), online or offline, and the monitor is
\* offline until a first cycle is reported good
C2_CounterCountsFailures ==
    /\ failedUpdateCount = consecFails
    /\ ~everSucceeded => ~radmonOnline

C2_Witness ==
    /\ ~everSucceeded
    /\ failedUpdateCount = MAX_FAILED_DATA_REQUESTS + 1
    /\ pc = "top"

\* C3: a pass in which fetch, parse and convert succeeded ends with the
\* monitor online and the failure counter 0, whatever the database update did
C3_PipelineSuccessIsOnline ==
    (CycleOver /\ PipelineOk) => (radmonOnline /\ failedUpdateCount = 0)

\* C4 (as claimed): when the monitor goes from online to offline the output
\* file is there and shows status "offline"
C4_BlankedRecordWritten ==
    [][(radmonOnline /\ ~radmonOnline')
          => (outputFile'.exists /\ FileStatus(outputFile') = "offline")]_vars

\* C4 (amended): when the monitor goes from online to offline the output
\* file is removed, and the output file never shows status "offline"
C4_FileRemovedWhenOffline ==
    /\ [][(radmonOnline /\ ~radmonOnline') => outputFile' = Absent]_vars
    /\ [](FileStatus(outputFile) # "offline")

C4_Witness ==
    /\ pc = "chart"
    /\ statusLog = "offline"
    /\ consecFails = MAX_FAILED_DATA_REQUESTS
    /\ ~outputFile.exists

\* C5: at the end of a pass the output file shows status "online" only if
\* the monitor is online
C5_FileAgreesWithStatus ==
    (CycleOver /\ FileStatus(outputFile) = "online") => radmonOnline

\* C6: no failure inside a pass ends the main loop
C6_LoopGoesOn == pc # "crashed"

\* C7: a database update rejected for its time stamp leaves the reset
\* request set for the next fetch, and a fetch of /reset clears it
C7_ResetIsOneShot ==
    /\ dbAnswer = "order" => remoteDeviceReset
    /\ fetchLog.path = "/reset" => ~remoteDeviceReset

\* C8 (as claimed): a fetch whose first request fails succeeds when the
\* device answers one of the following requests with data
C8_RetryRecovers ==
    (/\ fetchLog.requests > 0
     /\ fetchLog.answers[1] \in {"error", "timeout"}
     /\ \E i \in 2..Len(fetchLog.answers) : fetchLog.answers[i] = "data")
        => fetchLog.got

\* C8 (amended): a fetch sends one request and succeeds exactly when that
\* request is answered with data
C8_SingleRequest ==
    fetchLog.requests > 0
        => /\ fetchLog.requests = 1
           /\ fetchLog.got <=> fetchLog.answers[1] = "data"

C8_Witness ==
    /\ fetchLog.requests = 1
    /\ fetchLog.answers[1] = "error"
    /\ fetchLog.answers[2] = "data"
    /\ ~fetchLog.got
    /\ pc = "status"

\* C9: writeOutputFile and updateDatabase are called in a pass only after
\* fetch, parse and convert have all succeeded in that pass
C9_OnlyConvertedRecords ==
    (cycle.wrote \/ cycle.dbUpdate) => PipelineOk

C9_Witness ==
    /\ cycle.wrote
    /\ cycle.dbUpdate
    /\ PipelineOk
    /\ pc = "status"

\* C10 (as claimed): parsing a data string of 5 items key=value succeeds and
\* leaves exactly the keys of the 5 items in the dictionary
C10_ExactlyTheFiveKeys ==
    (Parsed /\ FiveWellFormed(fetchLog.content))
        => (cycle.parseOk /\ DOMAIN dData = KeysOf(fetchLog.content))

\* C10 (amended): parsing a data string of 5 items key=value succeeds and
\* leaves the keys of the 5 items and the two keys "status" and "serverMode"
\* in the dictionary, and no other
C10_FiveKeysAndStatus ==
    (Parsed /\ FiveWellFormed(fetchLog.content))
        => /\ cycle.parseOk
           /\ DOMAIN dData
                = KeysOf(fetchLog.content) \cup {"status", "serverMode"}

C10_Witness ==
    /\ Parsed
    /\ FiveWellFormed(fetchLog.content)
    /\ Cardinality(KeysOf(fetchLog.content)) = EXPECTED_ITEMS
    /\ Cardinality(DOMAIN dData) = EXPECTED_ITEMS + 2

\* the content received in this pass has one item too few, or items too many
MiscountedPayload ==
    /\ fetchLog.got
    /\ LET n == Len(SplitContent(fetchLog.content))
       IN  n = EXPECTED_ITEMS - 1 \/ n > EXPECTED_ITEMS

\* the step of parseDataString on a miscounted content: it fails, the pass
\* goes on to setRadmonStatus, and the file and the store are left alone
MiscountedParseStep ==
    (pc = "parse" /\ MiscountedPayload /\ pc' \in {"convert", "status"})
        => /\ pc' = "status"
           /\ ~result'
           /\ ~cycle'.parseOk
           /\ outputFile' = outputFile
           /\ rrdLastUpdate' = rrdLastUpdate
           /\ dbCalls' = dbCalls

\* the step of setRadmonStatus that ends such a pass: neither writeOutputFile
\* nor updateDatabase has been called, and the pass counts as a failure
MiscountedReportStep(fileAfter) ==
    (pc = "status" /\ MiscountedPayload /\ pc' = "chart")
        => /\ ~cycle.wrote
           /\ ~cycle.dbUpdate
           /\ failedUpdateCount' = failedUpdateCount + 1
           /\ consecFails' = consecFails + 1
           /\ rrdLastUpdate' = rrdLastUpdate
           /\ dbCalls' = dbCalls
           /\ outputFile' = fileAfter

\* C11 (as stated): a content of 4 items, or of 6 or more, fails in
\* parseDataString, the pass is counted as failed, and the pass changes
\* neither the output file nor the store
C11_MiscountLeavesFileAlone ==
    [][MiscountedParseStep /\ MiscountedReportStep(outputFile)]_vars

\* C11: a content of 4 items, or of 6 or more, fails in parseDataString and
\* the pass is counted as failed; neither writeOutputFile nor updateDatabase
\* runs in that pass, and the store is left alone. The output file is left as
\* it was too, unless the pass is the _MAX_FAILED_DATA_REQUESTS-th failure in
\* a row: then setRadmonStatus removes the file
C11_MiscountFailsThePass ==
    [][/\ MiscountedParseStep
       /\ MiscountedReportStep(
              IF failedUpdateCount = MAX_FAILED_DATA_REQUESTS - 1
              THEN Absent ELSE outputFile)]_vars

\* a miscounted content has failed to parse as the third failure in a row
\* while the output file of the last good pass is still there
C11_Witness ==
    /\ pc = "status"
    /\ MiscountedPayload
    /\ ~result
    /\ failedUpdateCount = MAX_FAILED_DATA_REQUESTS - 1
    /\ outputFile.exists

\* C12: between two calls of updateDatabase more than
\* _DATABASE_UPDATE_INTERVAL seconds of loop time (currentTime) have passed,
\* and updateDatabase is called only in a pass whose fetch, parse and convert
\* have all succeeded
C12_UpdatesAreSpaced ==
    /\ \A i \in 1..(Len(dbCalls) - 1) :
         dbCalls[i + 1].time - dbCalls[i].time > DATABASE_UPDATE_INTERVAL
    /\ cycle.dbUpdate => PipelineOk

\* updateDatabase has run a second time
C12_Witness ==
    /\ Len(dbCalls) = 2
    /\ cycle.dbUpdate
    /\ pc = "status"

\* C13 (as stated): updateDatabase is never called with a time stamp smaller
\* than that of an earlier call
C13_SubmittedNeverGoBack ==
    \A i \in 1..Len(dbCalls) : \A j \in i..Len(dbCalls) :
        dbCalls[i].ts <= dbCalls[j].ts

\* C13: updateDatabase submits the time stamp the device reported in this
\* pass, as converted by convertData and without comparing it with earlier
\* ones; it is the store that keeps the order, so the time stamps the store
\* has accepted are strictly increasing
C13_StoreKeepsTheOrder ==
    /\ (cycle.dbUpdate /\ dbAnswer # "none" /\ pc \in {"status", "crashed"})
           => dbCalls[Len(dbCalls)].ts = EpochOfUtc(dData["UTC"])
    /\ \A i \in 1..Len(dbCalls) : \A j \in (i + 1)..Len(dbCalls) :
           (dbCalls[i].answer = "ok" /\ dbCalls[j].answer = "ok")
               => dbCalls[i].ts < dbCalls[j].ts

\* the device has reported an earlier time than in the last update, the agent
\* has submitted it and the store has rejected it
C13_Witness ==
    /\ Len(dbCalls) = 2
    /\ dbCalls[1].answer = "ok"
    /\ dbCalls[2].ts < dbCalls[1].ts
    /\ dbCalls[2].answer = "order"

\* the step in which the process exits on a signal
SignalExit == pc # "exited" /\ pc' = "exited"

\* C14 (as stated): the process exits on a signal only when the pass under
\* way is complete, that is from the sleep at the end of a pass or from the
\* top of the loop
C14_ExitsBetweenPasses ==
    [][SignalExit => pc \in {"sleep", "top"}]_vars

\* C14: the handler runs at once, wherever main is; it cleans up and exits
\* without any further step of the pass under way: the pass is left where it
\* was, its outcome is not reported, nothing more is written or stored, and
\* the exited process takes no step of the loop
C14_SignalCutsThePassShort ==
    [][/\ SignalExit =>
            /\ cycle' = cycle
            /\ result' = result
            /\ dData' = dData
            /\ timers' = timers
            /\ failedUpdateCount' = failedUpdateCount
            /\ consecFails' = consecFails
            /\ rrdLastUpdate' = rrdLastUpdate
            /\ dbCalls' = dbCalls
            /\ ~radmonOnline'
            /\ outputFile' = Absent
       /\ pc = "exited" =>
            /\ pc' = "exited"
            /\ cycle' = cycle
            /\ outputFile' = outputFile]_vars

\* the signal has arrived after the fetch of a pass and the process has
\* exited with the outcome of that pass not reported
C14_Witness ==
    /\ pc = "exited"
    /\ cycle.due
    /\ cycle.fetchOk
    /\ ~cycle.reported

\* C15: once the process has exited on a signal the output file is absent,
\* wherever main was when the signal came, between the opening and the
\* writing of the file and right after the writing included
C15_NoFileAfterSignalExit ==
    pc = "exited" => outputFile = Absent

\* the signal has come between open() and write() of the output file and
\* the process has exited
C15_Witness ==
    /\ pc = "exited"
    /\ exitedAt = "writing"
    /\ cycle.wrote
    /\ ~outputFile.exists

\* the step of main that comes after setRadmonStatus, or after the test of
\* the request interval when no request is due
ChartStep == pc = "chart" /\ pc' = "sleep"

\* C16: when the chart interval is due the generateGraphs process is started,
\* whatever the outcome of the pass (result plays no part), and main goes on
\* to its sleep with that process still running; no step of the loop waits
\* for a generateGraphs process, and the end of such a process is no step of
\* the loop
C16_ChartsRunBesideTheLoop ==
    [][/\ ChartStep =>
            IF ChartUpdateDue(currentTime, lastChartUpdateTime)
            THEN /\ graphProcs' = graphProcs + 1
                 /\ lastChartUpdateTime' = currentTime
            ELSE /\ graphProcs' = graphProcs
                 /\ lastChartUpdateTime' = lastChartUpdateTime
       /\ graphProcs' < graphProcs => (pc' = pc /\ now' = now)
       /\ (pc = "sleep" /\ graphProcs > 0) => ENABLED Sleep
       /\ (pc = "fetch" /\ graphProcs > 0) => ENABLED GetRadiationData]_vars

\* the first fetch has failed, the charts were started in that pass all the
\* same, and the loop is at its next fetch while generateGraphs still runs
C16_Witness ==
    /\ pc = "fetch"
    /\ now > StartTime
    /\ ~result
    /\ graphProcs > 0
    /\ lastChartUpdateTime = StartTime

\* C17: writeOutputFile overwrites the whole file: open(.., "w") leaves it
\* empty and the write leaves in it the record just written and nothing
\* else, so that writing the record the file already holds leaves the file
\* with the content it had after the first writing
C17_WriteIsFullOverwrite ==
    [][/\ (pc = "write" /\ pc' = "writing")
            => outputFile' = [exists |-> TRUE, content |-> <<>>]
       /\ (pc = "writing" /\ pc' = "db")
            => /\ outputFile'.exists
               /\ outputFile'.content \in {<<dData>>, <<>>}
               /\ (cycle.rewrite /\ outputFile'.content # <<>>)
                      => outputFile'.content = <<dData>>]_vars

\* the record that the file held already has been written to it once more
C17_Witness ==
    /\ pc = "db"
    /\ cycle.wrote
    /\ cycle.rewrite
    /\ outputFile = [exists |-> TRUE, content |-> <<dData>>]

\* the number of items of the form key=value in a content
RecognizedFields(content) ==
    Cardinality({ i \in 1..Len(SplitContent(content)) :
                    WellFormedItem(SplitContent(content)[i]) })

\* C18: the items that parseDataString counts are those of the form
\* key=value: a content with fewer than 5 of them, 5 items of which one has
\* no '=' among them, fails in parseDataString
C18_CountsRecognizedFields ==
    (Parsed /\ RecognizedFields(fetchLog.content) < EXPECTED_ITEMS)
        => (~cycle.parseOk /\ ~result)

\* a parsed record whose dose rate or count is no number, or whose time stamp
\* is not of the form "%H:%M:%S %m/%d/%Y"
BadFieldRecord(d) ==
    /\ {"UTC", "CPM", "uSv/hr"} \subseteq DOMAIN d
    /\ \/ FloatOf(d["uSv/hr"]) = -1
       \/ FloatOf(d["CPM"]) = -1
       \/ EpochOfUtc(d["UTC"]) = -1

\* C19: convertData fails on a record whose dose rate or count is no number
\* or whose time stamp has not the expected form, and the pass goes straight
\* to setRadmonStatus as a failed one, with no writeOutputFile and no
\* updateDatabase
C19_BadFieldsFailConvert ==
    [][(pc = "convert" /\ BadFieldRecord(dData)
           /\ pc' \in {"write", "status"})
          => /\ pc' = "status"
             /\ ~result'
             /\ ~cycle'.convertOk]_vars

\* the step at the top of the loop, which starts the data request or skips it
TopStep == pc = "top" /\ pc' \in {"fetch", "chart"}

\* C20 (as stated): the data request is made in every pass that finds the
\* time since the last one greater than or equal to the request interval
C20_FetchAtOrAfterInterval ==
    [][(TopStep /\ now - lastDataRequestTime >= dataRequestInterval)
           => pc' = "fetch"]_vars

\* C20: the data request is made in exactly those passes that find the time
\* since the last one strictly greater than the request interval; a pass that
\* finds it equal to the interval makes no request and leaves the time of
\* the last request as it was
C20_FetchOnlyAfterInterval ==
    [][TopStep =>
          /\ pc' = "fetch" <=> now - lastDataRequestTime > dataRequestInterval
          /\ pc' = "fetch" => (lastDataRequestTime' = now /\ cycle'.due)
          /\ pc' = "chart" => (lastDataRequestTime' = lastDataRequestTime
                               /\ ~cycle'.due)]_vars

\* a pass has found the time since the last request equal to the interval
\* and has made no request
C20_Witness ==
    /\ pc = "chart"
    /\ ~cycle.due
    /\ currentTime - lastDataRequestTime = dataRequestInterval

\* the calls of updateDatabase whose rrdtool command has failed
FailedCalls == { i \in 1..Len(dbCalls) : dbCalls[i].answer # "ok" }

\* C21: after a failed call of updateDatabase the agent goes on with its
\* loop; it calls updateDatabase again only when more than
\* _DATABASE_UPDATE_INTERVAL seconds have passed since the failed call, and
\* then with the time stamp of the record of that later pass
C21_MissedPointNotReplayed ==
    /\ FailedCalls # {} => pc # "crashed"
    /\ \A i \in FailedCalls : i < Len(dbCalls) =>
           dbCalls[i + 1].time - dbCalls[i].time > DATABASE_UPDATE_INTERVAL
    /\ (cycle.dbUpdate /\ dbAnswer # "none" /\ pc = "status")
           => dbCalls[Len(dbCalls)].ts = dData["ELT"]

\* the dose rate the device sent in this pass, in thousandths of a uSv/h
SourceDoseRate ==
    FloatOf(LoadItems(SplitContent(fetchLog.content), 1, EmptyDict)["uSv/hr"])

\* updateDatabase has just run its rrdtool command in this pass
JustSubmitted ==
    /\ pc \in {"status", "crashed"}
    /\ cycle.dbUpdate
    /\ dbAnswer # "none"

\* C22 (as stated): the dose rate submitted to the store is the dose rate the
\* device sent, scaled by 1e-6 and not rounded
C22_StoredFromSource ==
    JustSubmitted => dbCalls[Len(dbCalls)].sv = SourceDoseRate

\* C22: the dose rate submitted to the store is the dose rate the device
\* sent, rounded to two decimals as for the display, and then scaled by 1e-6
C22_StoredFromRounded ==
    JustSubmitted
        => dbCalls[Len(dbCalls)].sv = ((SourceDoseRate + 5) \div 10) * 10

\* the device has sent 0.146 uSv/h and 0.15e-6 Sv/h has been submitted
C22_Witness ==
    /\ JustSubmitted
    /\ SourceDoseRate = 146
    /\ dbCalls[Len(dbCalls)].sv = 150

\* C23: the "radiation monitor online" and "radiation monitor offline"
\* messages alternate in the log and the first of them is "online"; "offline"
\* is logged only by a step that finds the monitor online and leaves it
\* offline, "online" only by one that finds it offline and leaves it online,
\* the step of the signal handler included
C23_StatusMessagesAlternate ==
    [][/\ \A i \in 1..Len(statusEvents') :
            statusEvents'[i] = IF i % 2 = 1 THEN "online" ELSE "offline"
       /\ Len(statusEvents') > Len(statusEvents) =>
            /\ Len(statusEvents') = Len(statusEvents) + 1
            /\ statusEvents'[Len(statusEvents')] = "offline"
                   => (radmonOnline /\ ~radmonOnline')
            /\ statusEvents'[Len(statusEvents')] = "online"
                   => (~radmonOnline /\ radmonOnline')]_vars

\* the monitor has come online, gone offline after three failed passes and
\* come online again, and then the signal has ended the process
C23_Witness ==
    /\ pc = "exited"
    /\ statusEvents = << "online", "offline", "online", "offline" >>

====
